---------------------------- MODULE Spec2Model ----------------------------
(***************************************************************************)
(* lstree: a directory-tree printer (src/src/main.cpp).                    *)
(*                                                                         *)
(* Strings are sequences of one-character tokens.  The recursion of        *)
(* generate_directory_hierarchy / process_directory_entries is an explicit *)
(* call stack: one frame per running process_directory_entries, holding    *)
(* its parameters and locals.  One action is one iteration of its loop     *)
(* (with the whole prologue of the recursive call when the entry is a      *)
(* directory), the return of a finished loop, or a part of main.           *)
(***************************************************************************)
EXTENDS Integers, Sequences, FiniteSets, TLC

(* ------------------------------ bounds -------------------------------- *)
MaxNodes == 3      \* entries below the root argument
MaxName == 2       \* distinct file names
MaxXSpacing == 1   \* --x_spacing ranges over 0..MaxXSpacing
MaxYSpacing == 2   \* --y_spacing ranges over 1..MaxYSpacing

(* ------------------------- program constants --------------------------- *)
DefaultXSpacing == 3
DefaultYSpacing == 1

(* ------------------------------ tokens -------------------------------- *)
TEE == "T"
ELL == "L"
BAR == "|"
RULE == "-"
SPACE == " "
NL == "NL"
SLASH == "/"
ROOT == "r"

NOT_ITERATING == "NOT_ITERATING"
ITERATING == "ITERATING"
NO_VALUE == "NO_VALUE"
LevelState == {NOT_ITERATING, ITERATING, NO_VALUE}

(* File names: one token each; their string order is the order below.     *)
NameSeq == <<"a", "b", "c", "d", "e", "f">>
Names == {NameSeq[i] : i \in 1..MaxName}
NameIndex(n) == CHOOSE i \in 1..Len(NameSeq) : NameSeq[i] = n
NameLess(a, b) == NameIndex(a) < NameIndex(b)

(* --------------------------- the file system --------------------------- *)
(* A file system maps the component list of a path below the root         *)
(* argument to the kind of what is there; <<>> is the root argument.      *)
Kinds == {"file", "dir", "other"}
Candidates(t) ==
    {Append(p, n) : p \in {d \in DOMAIN t : t[d] = "dir"}, n \in Names} \ DOMAIN t
Extend(t) == {t @@ (q :> k) : q \in Candidates(t), k \in Kinds}
RECURSIVE TreesUpTo(_)
TreesUpTo(n) ==
    IF n = 0 THEN {(<<>> :> "dir")}
    ELSE LET prev == TreesUpTo(n - 1) IN prev \cup UNION {Extend(t) : t \in prev}
Missing == [p \in {} |-> "other"]
FileSystems ==
    TreesUpTo(MaxNodes) \cup {(<<>> :> "file"), (<<>> :> "other"), Missing}

VARIABLES
    fs,              \* the file system the run reads
    directory_path,  \* main: the path argument
    x_spacing, y_spacing, sort_entries, ignore_list,  \* main: parsed options
    level_states,    \* the global map depth -> LevelState
    directory_count, file_count,
    stack,           \* running process_directory_entries calls, outermost first
    out,             \* standard output: the strings printed with endl
    summary,         \* the summary line, <<>> until printed
    err,             \* standard error: the messages printed
    visits,          \* history: one record per loop iteration of the walk
    pc               \* "start", "walk", "done", "fatal" (exit(1))

inputs == <<fs, directory_path, x_spacing, y_spacing, sort_entries, ignore_list>>
vars == <<fs, directory_path, x_spacing, y_spacing, sort_entries, ignore_list,
          level_states, directory_count, file_count, stack, out, summary, err,
          visits, pc>>

(* ----------------------------- strings --------------------------------- *)
Last(s) == s[Len(s)]
Front(s) == SubSeq(s, 1, Len(s) - 1)

RECURSIVE generate_character_string(_, _)
generate_character_string(n, s) ==
    IF n = 0 THEN <<>> ELSE generate_character_string(n - 1, s) \o s

(* Faulty variant: the two connectors exchanged.                          *)
generate_hierarchy_format_string_swapped(state) ==
    CASE state = ITERATING -> <<ELL>>
      [] state = NOT_ITERATING -> <<TEE>>
      [] state = NO_VALUE -> <<>>
generate_hierarchy_format_string(state) ==
    CASE state = ITERATING -> <<TEE>>
      [] state = NOT_ITERATING -> <<ELL>>
      [] state = NO_VALUE -> <<>>

(* std::map operator[]: a missing key is inserted with LevelState(0).      *)
Subscript(ls, depth) == IF depth \in DOMAIN ls THEN ls ELSE (depth :> NOT_ITERATING) @@ ls
Assign(ls, depth, state) == (depth :> state) @@ ls

(* generate_x_padding_string: the levels it finds missing (exit(1)), and   *)
(* the string it builds otherwise.                                         *)
LevelMissing(ls, depth) == \E level \in 1..(depth - 1) : level \notin DOMAIN ls
RECURSIVE PaddingUpTo(_, _, _)
PaddingUpTo(ls, last, xs) ==
    IF last = 0 THEN <<>>
    ELSE PaddingUpTo(ls, last - 1, xs)
         \o (IF ls[last] = ITERATING THEN <<BAR>> ELSE <<SPACE>>)
         \o generate_character_string(xs, <<SPACE>>)
(* Faulty variant: the loop bound level <= depth.                         *)
generate_x_padding_string_inclusive(ls, depth, xs) == PaddingUpTo(ls, depth, xs)
generate_x_padding_string(ls, depth, xs) ==
    IF depth = 0 THEN <<>> ELSE PaddingUpTo(ls, depth - 1, xs)

(* Faulty variant: the condition y > 0 alone.                             *)
RECURSIVE YPaddingString_skip_first(_, _, _, _)
YPaddingString_skip_first(ls, xs, ys, depth) ==
    IF ys = 0 THEN <<>>
    ELSE YPaddingString_skip_first(ls, xs, ys - 1, depth)
         \o (IF ys - 1 > 0
             THEN generate_x_padding_string(ls, depth, xs) \o <<BAR, NL>>
             ELSE <<>>)
RECURSIVE YPaddingString(_, _, _, _)
YPaddingString(ls, xs, ys, depth) ==
    IF ys = 0 THEN <<>>
    ELSE YPaddingString(ls, xs, ys - 1, depth)
         \o (IF depth > 0 \/ ys - 1 > 0
             THEN generate_x_padding_string(ls, depth, xs) \o <<BAR, NL>>
             ELSE <<>>)

(* generate_entry_string: the table after the lookups, whether the        *)
(* process exited in a padding lookup, and the string returned.           *)
(* Faulty variant: without the early return for NO_VALUE.                 *)
generate_entry_string_no_root_case(ls, path, xs, ys, depth) ==
    LET ls1 == Subscript(ls, depth) IN
    IF LevelMissing(ls1, depth)
    THEN [ls |-> ls1, fatal |-> TRUE, str |-> <<>>]
    ELSE [ls |-> ls1, fatal |-> FALSE,
          str |-> YPaddingString(ls1, xs, ys, depth)
                  \o generate_x_padding_string(ls1, depth, xs)
                  \o generate_hierarchy_format_string(ls1[depth])
                  \o generate_character_string(xs, <<RULE>>)
                  \o path]
generate_entry_string(ls, path, xs, ys, depth) ==
    LET ls1 == Subscript(ls, depth) IN
    IF ls1[depth] = NO_VALUE
    THEN [ls |-> ls1, fatal |-> FALSE, str |-> path]
    ELSE IF LevelMissing(ls1, depth)
    THEN [ls |-> ls1, fatal |-> TRUE, str |-> <<>>]
    ELSE [ls |-> ls1, fatal |-> FALSE,
          str |-> YPaddingString(ls1, xs, ys, depth)
                  \o generate_x_padding_string(ls1, depth, xs)
                  \o generate_hierarchy_format_string(ls1[depth])
                  \o generate_character_string(xs, <<RULE>>)
                  \o path]

(* ------------------------- file-system queries ------------------------- *)
(* The components of a path string below the root argument.               *)
Components(path) ==
    IF path = <<>> THEN <<>> ELSE SelectSeq(Tail(path), LAMBDA t : t # SLASH)
Exists(path) == path # <<>> /\ Components(path) \in DOMAIN fs
(* A path with a trailing separator names a directory or nothing.         *)
is_regular_file(path) ==
    Exists(path) /\ fs[Components(path)] = "file" /\ Last(path) # SLASH
is_directory(path) == Exists(path) /\ fs[Components(path)] = "dir"
ChildNames(path) ==
    IF is_directory(path)
    THEN {n \in Names : Append(Components(path), n) \in DOMAIN fs}
    ELSE {}
get_directory_entry_count(path) == Cardinality(ChildNames(path))
(* fs::directory_iterator: the children in an unspecified order.          *)
Enumerations(path) ==
    {e \in [1..Cardinality(ChildNames(path)) -> ChildNames(path)] :
        \A i, j \in DOMAIN e : i # j => e[i] # e[j]}
ParentPath(path) == Front(path)
Filename(path) == <<Last(path)>>

EnsureSlash(s) == IF Last(s) # SLASH THEN s \o <<SLASH>> ELSE s

(* Faulty variant: the sort left out.                                     *)
SortEntries_unsorted(entries) == entries
SortEntries(entries) == SortSeq(entries, NameLess)
(* process_directory_entries, before its loop: the entries kept, in the   *)
(* order the loop takes them.                                             *)
CollectEntries(enum, sort, ignore) ==
    LET kept == SelectSeq(enum, LAMBDA n : n \notin ignore)
    IN IF sort THEN SortEntries(kept) ELSE kept

CountFile(fc) == fc + 1
(* Faulty variant: the increment left out.                                *)
CountDirectory_never(dc) == dc
CountDirectory(dc) == dc + 1
(* Faulty variant: the depth incremented twice.                           *)
NextDepth_twice(depth) == depth + 2
NextDepth(depth) == depth + 1

(* The state line 259 gives the entry a frame is at.                      *)
EntryState(entry_index, entry_count) ==
    IF entry_index # entry_count THEN ITERATING ELSE NOT_ITERATING

(* Faulty variant: without the is_directory check.                        *)
path_is_valid_no_directory_check(path) == path # <<>> /\ ~is_regular_file(path)
(* path_is_valid: its return value (its printing is in the caller below). *)
path_is_valid(path) ==
    path # <<>> /\ ~is_regular_file(path) /\ is_directory(path)

(* generate_directory_hierarchy up to the loop of the                     *)
(* process_directory_entries it calls: the table and file count after it, *)
(* what it printed, whether it exited, and the frame of the loop it       *)
(* entered (none when path_is_valid returned false).  enum is the order   *)
(* in which the directory iterator yields the children.                   *)
generate_directory_hierarchy(ls, fc, path, xs, ys, depth, sort, ignore, enum) ==
    IF path_is_valid(path)
    THEN LET p == EnsureSlash(path)
             ls1 == Subscript(ls, depth)
             path_name == EnsureSlash(IF ls1[depth] = NO_VALUE
                                      THEN p
                                      ELSE Filename(ParentPath(p)))
             es == generate_entry_string(ls1, path_name, xs, ys, depth)
         IN [ls |-> es.ls, file_count |-> fc,
             out |-> IF es.fatal THEN <<>> ELSE <<es.str>>, fatal |-> es.fatal,
             err |-> <<>>,
             frames |-> IF es.fatal THEN <<>>
                        ELSE <<[path |-> p,
                                depth |-> NextDepth(depth),
                                entry_count |-> get_directory_entry_count(p),
                                entries |-> CollectEntries(enum, sort, ignore),
                                entry_index |-> 0,
                                sort_entries |-> sort,
                                ignore_list |-> ignore]>>]
    ELSE IF path = <<>>
    THEN [ls |-> ls, file_count |-> fc, out |-> <<>>, fatal |-> FALSE,
          err |-> <<"Error: Path is empty!">>, frames |-> <<>>]
    ELSE IF is_regular_file(path)
    THEN LET es == generate_entry_string(ls, path, xs, ys, depth)
         IN [ls |-> es.ls, file_count |-> CountFile(fc),
             out |-> IF es.fatal THEN <<>> ELSE <<es.str>>, fatal |-> es.fatal,
             err |-> <<>>, frames |-> <<>>]
    ELSE [ls |-> ls, file_count |-> fc, out |-> <<>>, fatal |-> FALSE,
          err |-> <<"Error: Path is neither a file nor a directory!">>,
          frames |-> <<>>]

(* ------------------------------- Init ---------------------------------- *)
IgnoreLists == {{}} \cup {{n} : n \in Names}
Arguments == {<<>>, <<ROOT>>, <<ROOT, SLASH>>}
NoStates == [d \in {} |-> NO_VALUE]

Start ==
    /\ fs \in FileSystems
    /\ level_states = NoStates
    /\ directory_count = 0
    /\ file_count = 0
    /\ stack = <<>>
    /\ out = <<>>
    /\ summary = <<>>
    /\ err = <<>>
    /\ visits = <<>>
    /\ pc = "start"

(* Any argument, sort flag and ignore list, with the default spacing.     *)
Init ==
    /\ Start
    /\ directory_path \in Arguments
    /\ directory_path = <<>> => fs = Missing
    /\ x_spacing = DefaultXSpacing
    /\ y_spacing = DefaultYSpacing
    /\ sort_entries \in BOOLEAN
    /\ ignore_list \in IgnoreLists

(* Any spacing and sort flag, with no ignore list.                        *)
InitSpacing ==
    /\ Start
    /\ directory_path = <<ROOT>>
    /\ x_spacing \in 0..MaxXSpacing
    /\ y_spacing \in 1..MaxYSpacing
    /\ sort_entries \in BOOLEAN
    /\ ignore_list = {}

(* ------------------------------- main ---------------------------------- *)
FileSummary == <<NL, 0, " directories, ", 1, " file", NL>>
Summary(dc, fc) ==
    <<NL, dc, IF dc = 1 THEN " directory, " ELSE " directories, ",
      fc, IF fc = 1 THEN " file" ELSE " files", NL>>

(* main, lines 382-388: the argument is a regular file.                   *)
MainFile ==
    /\ pc = "start"
    /\ is_regular_file(directory_path)
    /\ LET r == generate_directory_hierarchy(
                    Assign(level_states, 0, NO_VALUE), 1, directory_path,
                    x_spacing, y_spacing, 0, sort_entries, {}, <<>>)
       IN /\ level_states' = r.ls
          /\ file_count' = r.file_count
          /\ out' = out \o r.out
          /\ err' = err \o r.err
          /\ stack' = r.frames
          /\ summary' = FileSummary
          /\ pc' = "done"
    /\ UNCHANGED <<inputs, directory_count, visits>>

(* main, lines 382-399: any other argument, up to the loop of the walk.   *)
MainWalk ==
    /\ pc = "start"
    /\ ~is_regular_file(directory_path)
    /\ \E enum \in Enumerations(directory_path) :
         LET r == generate_directory_hierarchy(
                      Assign(level_states, 0, NO_VALUE), file_count,
                      directory_path, x_spacing, y_spacing, 0, sort_entries,
                      ignore_list, enum)
         IN /\ level_states' = r.ls
            /\ file_count' = r.file_count
            /\ out' = out \o r.out
            /\ err' = err \o r.err
            /\ stack' = r.frames
            /\ pc' = IF r.fatal THEN "fatal" ELSE "walk"
    /\ directory_count' = IF is_directory(directory_path) THEN 1 ELSE 0
    /\ UNCHANGED <<inputs, summary, visits>>

(* main, lines 400-406, once the walk has returned.                       *)
MainSummary ==
    /\ pc = "walk"
    /\ stack = <<>>
    /\ summary' = Summary(directory_count, file_count)
    /\ pc' = "done"
    /\ UNCHANGED <<inputs, level_states, directory_count, file_count, stack,
                   out, err, visits>>

(* ------------------------ the loop of the walk ------------------------- *)
Top == stack[Len(stack)]
HasNext == pc = "walk" /\ stack # <<>> /\ Top.entry_index < Len(Top.entries)
NextName == Top.entries[Top.entry_index + 1]
NextPath == Top.path \o <<NextName>>
NextState == EntryState(Top.entry_index + 1, Top.entry_count)
Advanced == [stack EXCEPT ![Len(stack)].entry_index = @ + 1]

(* The states of the directories the running calls are in, from the       *)
(* locals of the calls: the one at depth k is what frame k is at.         *)
AncestorStates ==
    [k \in 1..(Len(stack) - 1) |->
        EntryState(stack[k].entry_index, stack[k].entry_count)]

Visit(kind, ls, printed) ==
    [path |-> NextPath, kind |-> kind, depth |-> Top.depth,
     state |-> NextState, index |-> Top.entry_index + 1,
     total |-> Len(Top.entries), anc |-> AncestorStates,
     read |-> [k \in 1..(Top.depth - 1) |->
                  IF k \in DOMAIN ls THEN ls[k] ELSE "missing"],
     line |-> IF printed THEN Len(out) + 1 ELSE 0]

(* Lines 256-270: the entry is a regular file.                            *)
ProcessFile ==
    /\ HasNext
    /\ is_regular_file(NextPath)
    /\ LET ls1 == Assign(level_states, Top.depth, NextState)
           es == generate_entry_string(ls1, <<NextName>>, x_spacing,
                                       y_spacing, Top.depth)
       IN /\ level_states' = es.ls
          /\ out' = IF es.fatal THEN out ELSE Append(out, es.str)
          /\ pc' = IF es.fatal THEN "fatal" ELSE pc
          /\ visits' = Append(visits, Visit("file", ls1, ~es.fatal))
    /\ file_count' = CountFile(file_count)
    /\ stack' = Advanced
    /\ UNCHANGED <<inputs, directory_count, summary, err>>

(* Lines 256-261 and 271-279: the entry is a directory; the recursive     *)
(* call gets no ignore list, so its parameter takes the default {}.       *)
ProcessDirectory ==
    /\ HasNext
    /\ ~is_regular_file(NextPath)
    /\ is_directory(NextPath)
    /\ \E enum \in Enumerations(NextPath) :
         LET ls1 == Assign(level_states, Top.depth, NextState)
             r == generate_directory_hierarchy(
                      ls1, file_count, NextPath, x_spacing, y_spacing,
                      Top.depth, Top.sort_entries, {}, enum)
         IN /\ level_states' = r.ls
            /\ file_count' = r.file_count
            /\ out' = out \o r.out
            /\ err' = err \o r.err
            /\ stack' = Advanced \o r.frames
            /\ pc' = IF r.fatal THEN "fatal" ELSE pc
            /\ visits' = Append(visits, Visit("dir", ls1, r.out # <<>>))
    /\ directory_count' = CountDirectory(directory_count)
    /\ UNCHANGED <<inputs, summary>>

(* Lines 256-261: the entry is neither; only the level state changes.     *)
ProcessOther ==
    /\ HasNext
    /\ ~is_regular_file(NextPath)
    /\ ~is_directory(NextPath)
    /\ level_states' = Assign(level_states, Top.depth, NextState)
    /\ visits' = Append(visits, Visit("other", level_states', FALSE))
    /\ stack' = Advanced
    /\ UNCHANGED <<inputs, directory_count, file_count, out, summary, err, pc>>

(* Line 281: the loop is over, process_directory_entries and the          *)
(* generate_directory_hierarchy that called it return.                    *)
Return ==
    /\ pc = "walk"
    /\ stack # <<>>
    /\ Top.entry_index = Len(Top.entries)
    /\ stack' = Front(stack)
    /\ UNCHANGED <<inputs, level_states, directory_count, file_count, out,
                   summary, err, visits, pc>>

Next ==
    \/ MainFile
    \/ MainWalk
    \/ MainSummary
    \/ ProcessFile
    \/ ProcessDirectory
    \/ ProcessOther
    \/ Return

Spec == Init /\ [][Next]_vars
SpecSpacing == InitSpacing /\ [][Next]_vars

(* ======================= properties of the walk ======================= *)
Printed(i) == visits[i].line > 0
IsPrefix(s, t) == Len(s) <= Len(t) /\ SubSeq(t, 1, Len(s)) = s
EndsWith(t, s) == Len(s) <= Len(t) /\ SubSeq(t, Len(t) - Len(s) + 1, Len(t)) = s
RootKind == IF directory_path # <<>> /\ <<>> \in DOMAIN fs THEN fs[<<>>] ELSE "missing"
RootIsFile == RootKind = "file" /\ Last(directory_path) # SLASH
RootIsDirectory == RootKind = "dir"

RECURSIVE SplitLines(_)
SplitLines(s) ==
    IF \A i \in DOMAIN s : s[i] # NL THEN <<s>>
    ELSE LET i == CHOOSE k \in DOMAIN s : s[k] = NL /\ \A m \in 1..(k - 1) : s[m] # NL
         IN <<SubSeq(s, 1, i - 1)>> \o SplitLines(SubSeq(s, i + 1, Len(s)))
ExtraLines(i) == Front(SplitLines(out[visits[i].line]))
EntryLine(i) == Last(SplitLines(out[visits[i].line]))

(* A renderer that is handed the ancestors' states as a sequence.         *)
RECURSIVE Blanks(_)
Blanks(n) == IF n = 0 THEN <<>> ELSE <<SPACE>> \o Blanks(n - 1)
RECURSIVE Rules(_)
Rules(n) == IF n = 0 THEN <<>> ELSE <<RULE>> \o Rules(n - 1)
RECURSIVE ByValuePadding(_)
ByValuePadding(anc) ==
    IF anc = <<>> THEN <<>>
    ELSE (IF anc[1] = ITERATING THEN <<BAR>> ELSE <<SPACE>>)
         \o Blanks(x_spacing) \o ByValuePadding(Tail(anc))
Connector(state) == IF state = ITERATING THEN <<TEE>> ELSE <<ELL>>
DisplayName(i) ==
    <<Last(visits[i].path)>> \o (IF visits[i].kind = "dir" THEN <<SLASH>> ELSE <<>>)
RECURSIVE SpacerLines(_, _)
SpacerLines(n, anc) ==
    IF n = 0 THEN <<>> ELSE ByValuePadding(anc) \o <<BAR, NL>> \o SpacerLines(n - 1, anc)
ByValueEntryString(i) ==
    SpacerLines(y_spacing, visits[i].anc)
    \o ByValuePadding(visits[i].anc) \o Connector(visits[i].state)
    \o Rules(x_spacing) \o DisplayName(i)

(* C1: in every directory walked, the last child of the filtered list in   *)
(* rendering order is given NOT_ITERATING and every other child ITERATING, *)
(* whatever the ignore list removed.                                       *)
C1_LastChildNotIterating ==
    \A i \in DOMAIN visits :
        visits[i].state =
            (IF visits[i].index = visits[i].total THEN NOT_ITERATING ELSE ITERATING)

(* C2: with a non-empty ignore list, no entry whose name is on the list is *)
(* printed or counted, in the root or in any nested directory.             *)
C2_IgnoredNeverVisited ==
    ignore_list # {} =>
        \A i \in DOMAIN visits :
            visits[i].kind \in {"file", "dir"} => Last(visits[i].path) \notin ignore_list

SpacersWellFormed(i) ==
    \A k \in DOMAIN ExtraLines(i) :
        ExtraLines(i)[k] = ByValuePadding(visits[i].anc) \o <<BAR>>
RootLineBare == out # <<>> => Len(SplitLines(out[1])) = 1

FilesInTree == Cardinality({p \in DOMAIN fs : fs[p] = "file"})
DirectoriesBelowRoot == Cardinality({p \in DOMAIN fs : p # <<>> /\ fs[p] = "dir"})
Plural(n, one, many) == IF n = 1 THEN one ELSE many
SummaryText(d, f) ==
    <<NL, d, Plural(d, " directory, ", " directories, "), f, Plural(f, " file", " files"), NL>>
WalkedWholeTree == pc = "done" /\ RootIsDirectory /\ ignore_list = {}

(* C4 as claimed: after the walk of a directory with no ignore list the    *)
(* summary gives the files of the tree and the directories below the root, *)
(* the root not counted.                                                   *)
C4_RootNotCounted ==
    WalkedWholeTree => summary = SummaryText(DirectoriesBelowRoot, FilesInTree)
(* C4 amended: the summary gives the files of the tree and one more than   *)
(* the directories below the root, the root being counted too: a root with *)
(* a file and a subdirectory holding a file gives 2 directories, 2 files.  *)
C4_RootCounted ==
    WalkedWholeTree => summary = SummaryText(DirectoriesBelowRoot + 1, FilesInTree)
C4_Witness ==
    /\ WalkedWholeTree
    /\ fs = (<<>> :> "dir") @@ (<<"a">> :> "file") @@ (<<"b">> :> "dir")
             @@ (<<"b", "a">> :> "file")
    /\ summary = <<NL, 2, " directories, ", 2, " files", NL>>

RootDisplayName ==
    IF RootIsFile \/ Last(directory_path) = SLASH
    THEN directory_path ELSE directory_path \o <<SLASH>>

(* C5: the line of an entry at depth >= 1 is its ancestor padding, the     *)
(* connector of the state given to that entry, x_spacing rules and its     *)
(* display name, for files and directories alike; the root line is the     *)
(* display name alone.                                                     *)
C5_ConnectorOfOwnState ==
    /\ (pc # "start" /\ (RootIsFile \/ RootIsDirectory)) => out[1] = RootDisplayName
    /\ \A i \in DOMAIN visits :
          /\ visits[i].kind \in {"file", "dir"} => Printed(i)
          /\ Printed(i) =>
                EntryLine(i) = ByValuePadding(visits[i].anc) \o Connector(visits[i].state)
                               \o Rules(x_spacing) \o DisplayName(i)
C5_Witness ==
    \E i, j \in DOMAIN visits :
        /\ Printed(i) /\ visits[i].kind = "dir" /\ visits[i].state = ITERATING
        /\ visits[i].depth = 2
        /\ Printed(j) /\ visits[j].kind = "file" /\ visits[j].state = NOT_ITERATING

Where(i) == Components(visits[i].path)
Siblings(i, j) == Len(Where(i)) = Len(Where(j)) /\ Front(Where(i)) = Front(Where(j))
Rendered == {i \in DOMAIN visits : visits[i].kind \in {"file", "dir"}}

(* C6: with sort_entries the entry lines come in depth-first pre-order: a  *)
(* directory before its descendants, a whole subtree before the next       *)
(* sibling, the children of every directory in ascending name order, and   *)
(* exactly one line per visited file or directory.                         *)
C6_SortedPreOrder ==
    sort_entries =>
        /\ \A i \in Rendered :
              /\ visits[i].line = 1 + Cardinality({j \in Rendered : j <= i})
              /\ EndsWith(EntryLine(i), DisplayName(i))
        /\ Len(out) = IF pc = "start" \/ ~(RootIsFile \/ RootIsDirectory)
                       THEN 0 ELSE 1 + Cardinality(Rendered)
        /\ \A i, j \in Rendered :
              i < j => /\ ~IsPrefix(Where(j), Where(i))
                       /\ Siblings(i, j) => NameLess(Last(Where(i)), Last(Where(j)))
        /\ \A i, j, k \in Rendered :
              (i < j /\ j < k /\ IsPrefix(Where(i), Where(k))) => IsPrefix(Where(i), Where(j))
        /\ pc = "done" /\ RootIsDirectory /\ ignore_list = {} =>
              {Where(i) : i \in Rendered} = {p \in DOMAIN fs : p # <<>> /\ fs[p] # "other"}
C6_Witness ==
    /\ sort_entries /\ pc = "done"
    /\ \E i, j, k \in Rendered :
          /\ i < j /\ j < k
          /\ IsPrefix(Where(i), Where(j))
          /\ Siblings(i, k)

(* C7: when the argument is a regular file the run prints the argument as  *)
(* given and nothing else, walks nothing, and the summary is               *)
(* "0 directories, 1 file".                                                *)
C7_SingleFile ==
    (pc # "start" /\ RootIsFile) =>
        /\ pc = "done"
        /\ out = <<directory_path>>
        /\ err = <<>>
        /\ stack = <<>> /\ visits = <<>>
        /\ summary = <<NL, 0, " directories, ", 1, " file", NL>>
C7_Witness == pc = "done" /\ RootIsFile /\ out = <<(<<ROOT>>)>>

RootIsInvalid == ~RootIsFile /\ ~RootIsDirectory

(* C8: when the argument is empty or is neither a regular file nor a       *)
(* directory the run reports an error, prints no entry line, counts        *)
(* nothing, walks nothing, and ends with "0 directories, 0 files".         *)
C8_InvalidPath ==
    (pc # "start" /\ RootIsInvalid) =>
        /\ pc \in {"walk", "done"}
        /\ Len(err) = 1
        /\ out = <<>>
        /\ directory_count = 0 /\ file_count = 0
        /\ stack = <<>> /\ visits = <<>>
        /\ pc = "done" => summary = <<NL, 0, " directories, ", 0, " files", NL>>
C8_Witness ==
    /\ pc = "done" /\ RootIsInvalid /\ directory_path # <<>>
    /\ summary = <<NL, 0, " directories, ", 0, " files", NL>>

(* C10: the walk never reaches the exit of the missing-level branch: every *)
(* padding lookup finds the levels 1..d-1 in the table, and level 0 keeps  *)
(* NO_VALUE from the start of main on.                                     *)
C10_LevelsPresent ==
    /\ pc # "fatal"
    /\ pc # "start" => 0 \in DOMAIN level_states /\ level_states[0] = NO_VALUE
    /\ stack # <<>> => \A k \in 1..(Top.depth - 1) : k \in DOMAIN level_states
    /\ \A i \in DOMAIN visits :
          /\ Len(visits[i].read) = visits[i].depth - 1
          /\ \A k \in DOMAIN visits[i].read : visits[i].read[k] \in LevelState
          /\ visits[i].kind \in {"file", "dir"} => Printed(i)
C10_Witness ==
    \E i \in DOMAIN visits : Printed(i) /\ visits[i].depth = 3

(* C9: what a padding lookup reads from the shared table at an ancestor    *)
(* depth is the state given to the ancestor on the running recursion path, *)
(* so every printed string is the one the by-value renderer builds.        *)
C9_TableIsAncestorStates ==
    /\ \A k \in 1..(Len(stack) - 1) :
          /\ stack[k].depth = k
          /\ k \in DOMAIN level_states
          /\ level_states[k] = EntryState(stack[k].entry_index, stack[k].entry_count)
    /\ \A i \in DOMAIN visits :
          /\ visits[i].read = visits[i].anc
          /\ Printed(i) => out[visits[i].line] = ByValueEntryString(i)
C9_Witness ==
    \E i, j \in DOMAIN visits :
        /\ i < j
        /\ visits[i].depth = 1 /\ visits[i].state = ITERATING
        /\ Printed(j) /\ visits[j].depth = 2 /\ visits[j].read = <<NOT_ITERATING>>

=============================================================================
